---- MODULE Spec2Model ----
(***************************************************************************)
(* A model of FakeMemory (fake_memory.py, helpers.py): a byte-addressable  *)
(* fake memory made of FakeMemoryUnit ranges, the FakeMemory that routes   *)
(* accesses to them, and FakeMemoryItf that applies SREC lines to it.      *)
(*                                                                         *)
(* mu    the list FakeMemory._mu; each unit is a record holding            *)
(*       _addr_start, length, _data (the bytearray) and range.             *)
(* call  the call in progress and its arguments, "idle" between calls.     *)
(* ret   what that call returned or raised.                                *)
(* The program is single-threaded: a call runs to completion (one action)  *)
(* and its caller then takes the result (Return) before the next call.     *)
(***************************************************************************)
EXTENDS Integers, Sequences, FiniteSets, TLC

VARIABLES mu, call, ret

vars == <<mu, call, ret>>

(* ------------------------------ bounds -------------------------------- *)
\* addresses of the modelled bus are 0 .. MaxAddr
MaxAddr == 2
\* longest range handed to FakeMemoryUnit / add_range
MaxLen == 3
\* most units a FakeMemory holds in the model
MaxUnits == 2
\* a FakeMemory that is only given ranges (SpecRanges): its bus is
\* 0 .. MaxRangeAddr and it holds at most MaxRanges units
MaxRangeAddr == 4
MaxRanges == 3
\* longest list handed to write / longest SREC payload, in bytes
MaxWriteLen == 2
\* the Flash range of FakeMemoryItf, scaled to the modelled bus
FlashStart == 1
FlashLength == 2

\* number of bytes read32 reads
ReadBlockLen == 32

\* addresses the callers try: one below the bus to one above it
Addresses == (0 - 1) .. (MaxAddr + 1)
\* values handed to write: two bytes and one value that is not a byte
WriteValues == {0, 170, 256}
\* values of the lists handed to write: a byte and a value that is not one
ListValues == {170, 256}
\* (start, length) pairs that fit a bus 0 .. top
RangesWithin(top) ==
    {sl \in (0 .. top) \X (1 .. MaxLen) : sl[1] + sl[2] - 1 <= top}
Ranges == RangesWithin(MaxAddr)

RECURSIVE SeqsUpTo(_, _)
SeqsUpTo(S, n) ==
    IF n = 0 THEN {<<>>}
    ELSE LET shorter == SeqsUpTo(S, n - 1)
         IN  shorter \cup {Append(s, x) : s \in {t \in shorter : Len(t) = n - 1}, x \in S}

\* what write is handed: a single value or a list of values
WriteArgs ==
    {[is_list |-> FALSE, items |-> <<v>>] : v \in WriteValues}
    \cup {[is_list |-> TRUE, items |-> s] : s \in SeqsUpTo(ListValues, MaxWriteLen)}

(* ----------------------- results of a call ---------------------------- *)
\* kind is "None", "int", "list", "bool" or "raise"; val holds the returned
\* integers (a bool as 0 / 1); exc and arg name a raised exception.
ReturnNone == [kind |-> "None", val |-> <<>>, exc |-> "", arg |-> <<>>]
ReturnInt(v) == [kind |-> "int", val |-> <<v>>, exc |-> "", arg |-> <<>>]
ReturnList(l) == [kind |-> "list", val |-> l, exc |-> "", arg |-> <<>>]
ReturnBool(b) == [kind |-> "bool", val |-> <<IF b THEN 1 ELSE 0>>, exc |-> "", arg |-> <<>>]
Raise(e, a) == [kind |-> "raise", val |-> <<>>, exc |-> e, arg |-> <<a>>]

(* ----------------------------- helpers.py ----------------------------- *)
CustomRange(start, stop) == [start |-> start, stop |-> stop]

\* contains with the stop address left out of the range
contains_exclusive_stop(r, item) == r.start <= item /\ item < r.stop
contains(r, item) == r.start <= item /\ item <= r.stop

(* --------------------------- FakeMemoryUnit --------------------------- *)
Zeroes(n) == [i \in 1 .. n |-> 0]

start(u) == u.addr_start
end(u) == start(u) + u.length - 1

FakeMemoryUnit(addr_start, length) ==
    [addr_start |-> addr_start,
     length     |-> length,
     data       |-> Zeroes(length),
     range      |-> CustomRange(addr_start, addr_start + length - 1)]

\* ok = FALSE stands for the IOError
get_address(u, address) ==
    IF contains(u.range, address)
    THEN [ok |-> TRUE, off |-> address - start(u)]
    ELSE [ok |-> FALSE, off |-> 0]

FakeMemoryUnit_read(u, address, no_error) ==
    LET a == get_address(u, address)
    IN  IF a.ok THEN ReturnInt(u.data[a.off + 1])
        ELSE IF no_error THEN ReturnInt(0)
        ELSE Raise("IOError", address)

FakeMemoryUnit_read32(u, address, no_error) ==
    LET xs == [i \in 1 .. ReadBlockLen |-> address + i - 1]
        rs == [i \in 1 .. ReadBlockLen |-> FakeMemoryUnit_read(u, xs[i], no_error)]
    IN  IF \E i \in 1 .. ReadBlockLen : rs[i].kind = "raise"
        THEN rs[CHOOSE i \in 1 .. ReadBlockLen :
                    /\ rs[i].kind = "raise"
                    /\ \A j \in 1 .. (i - 1) : rs[j].kind # "raise"]
        ELSE ReturnList([i \in 1 .. ReadBlockLen |-> rs[i].val[1]])

IsByte(v) == 0 <= v /\ v <= 255

Min(a, b) == IF a <= b THEN a ELSE b

\* bytearray slice assignment data[lo:hi] = items, offsets from 0, lo <= len
SliceAssign(data, lo, hi, items) ==
    LET n  == Len(data)
        h  == Min(IF hi < lo THEN lo ELSE hi, n)
    IN  SubSeq(data, 1, lo) \o items \o SubSeq(data, h + 1, n)

\* FakeMemoryUnit_write with a list stored from offset 0, the address not
\* translated
FakeMemoryUnit_write_untranslated(u, address, value, no_error) ==
    LET a == get_address(u, address)
        n == Len(value.items)
    IN  IF ~a.ok
        THEN [u |-> u, ret |-> IF no_error THEN ReturnNone ELSE Raise("IOError", address)]
        ELSE IF \E i \in 1 .. n : ~IsByte(value.items[i])
        THEN [u |-> u, ret |-> IF no_error THEN ReturnNone ELSE Raise("ValueError", 0)]
        ELSE IF value.is_list
        THEN [u |-> [u EXCEPT !.data = SliceAssign(u.data, 0, n, value.items)],
              ret |-> ReturnNone]
        ELSE [u |-> [u EXCEPT !.data[a.off + 1] = value.items[1]],
              ret |-> ReturnNone]

\* FakeMemoryUnit_write erasing the unit before it stores the value
FakeMemoryUnit_write_erasing(u, address, value, no_error) ==
    LET a == get_address(u, address)
        n == Len(value.items)
        z == Zeroes(u.length)
    IN  IF ~a.ok
        THEN [u |-> u, ret |-> IF no_error THEN ReturnNone ELSE Raise("IOError", address)]
        ELSE IF \E i \in 1 .. n : ~IsByte(value.items[i])
        THEN [u |-> u, ret |-> IF no_error THEN ReturnNone ELSE Raise("ValueError", 0)]
        ELSE IF value.is_list
        THEN [u |-> [u EXCEPT !.data = SliceAssign(z, a.off, a.off + n, value.items)],
              ret |-> ReturnNone]
        ELSE [u |-> [u EXCEPT !.data = [z EXCEPT ![a.off + 1] = value.items[1]]],
              ret |-> ReturnNone]

\* the longest prefix of items made of bytes
RECURSIVE BytePrefix(_)
BytePrefix(items) ==
    IF Len(items) = 0 \/ ~IsByte(Head(items)) THEN <<>>
    ELSE <<Head(items)>> \o BytePrefix(Tail(items))

\* FakeMemoryUnit_write storing the items of a list one after the other, up
\* to the first that is not a byte
FakeMemoryUnit_write_prefix(u, address, value, no_error) ==
    LET a == get_address(u, address)
        n == Len(value.items)
        p == BytePrefix(value.items)
    IN  IF ~a.ok
        THEN [u |-> u, ret |-> IF no_error THEN ReturnNone ELSE Raise("IOError", address)]
        ELSE IF \E i \in 1 .. n : ~IsByte(value.items[i])
        THEN [u |-> [u EXCEPT !.data = SliceAssign(u.data, a.off, a.off + Len(p), p)],
              ret |-> IF no_error THEN ReturnNone ELSE Raise("ValueError", 0)]
        ELSE IF value.is_list
        THEN [u |-> [u EXCEPT !.data = SliceAssign(u.data, a.off, a.off + n, value.items)],
              ret |-> ReturnNone]
        ELSE [u |-> [u EXCEPT !.data[a.off + 1] = value.items[1]],
              ret |-> ReturnNone]

\* the result is the unit after the call and what the call returned
FakeMemoryUnit_write(u, address, value, no_error) ==
    LET a == get_address(u, address)
        n == Len(value.items)
    IN  IF ~a.ok
        THEN [u |-> u, ret |-> IF no_error THEN ReturnNone ELSE Raise("IOError", address)]
        ELSE IF \E i \in 1 .. n : ~IsByte(value.items[i])
        THEN [u |-> u, ret |-> IF no_error THEN ReturnNone ELSE Raise("ValueError", 0)]
        ELSE IF value.is_list
        THEN [u |-> [u EXCEPT !.data = SliceAssign(u.data, a.off, a.off + n, value.items)],
              ret |-> ReturnNone]
        ELSE [u |-> [u EXCEPT !.data[a.off + 1] = value.items[1]],
              ret |-> ReturnNone]

FakeMemoryUnit_clear(u) == [u EXCEPT !.data = Zeroes(u.length)]

(* ------------------------- calls and returns -------------------------- *)
Idle == [op |-> "idle"]

\* the caller has the result of the call; the object waits for the next call
Return ==
    /\ call # Idle
    /\ call' = Idle
    /\ ret' = ReturnNone
    /\ UNCHANGED mu

(* ---------------- a FakeMemoryUnit used on its own -------------------- *)
InitUnit ==
    /\ \E sl \in Ranges : mu = <<FakeMemoryUnit(sl[1], sl[2])>>
    /\ call = Idle
    /\ ret = ReturnNone

UnitRead ==
    /\ call = Idle
    /\ \E address \in Addresses, no_error \in BOOLEAN :
        /\ call' = [op |-> "fmu.read", address |-> address, no_error |-> no_error]
        /\ ret' = FakeMemoryUnit_read(mu[1], address, no_error)
        /\ UNCHANGED mu

UnitRead32 ==
    /\ call = Idle
    /\ \E address \in Addresses, no_error \in BOOLEAN :
        /\ call' = [op |-> "fmu.read32", address |-> address, no_error |-> no_error]
        /\ ret' = FakeMemoryUnit_read32(mu[1], address, no_error)
        /\ UNCHANGED mu

UnitWrite ==
    /\ call = Idle
    /\ \E address \in Addresses, value \in WriteArgs, no_error \in BOOLEAN :
        LET r == FakeMemoryUnit_write(mu[1], address, value, no_error)
        IN  /\ call' = [op |-> "fmu.write", address |-> address,
                        value |-> value, no_error |-> no_error]
            /\ ret' = r.ret
            /\ mu' = <<r.u>>

UnitClear ==
    /\ call = Idle
    /\ call' = [op |-> "fmu.clear"]
    /\ ret' = ReturnNone
    /\ mu' = <<FakeMemoryUnit_clear(mu[1])>>

NextUnit == UnitRead \/ UnitRead32 \/ UnitWrite \/ UnitClear \/ Return

SpecUnit == InitUnit /\ [][NextUnit]_vars

(* ----------------------------- FakeMemory ----------------------------- *)
Insert(units, pos_idx, new_mu) ==
    SubSeq(units, 1, pos_idx) \o <<new_mu>> \o SubSeq(units, pos_idx + 1, Len(units))

\* step 1 of add_range, the loop over self._mu from the i-th unit on:
\* err when the new start or end lies in a visited range, else pos_idx
RECURSIVE find_position(_, _, _)
find_position(units, new_mu, i) ==
    IF i > Len(units) THEN [err |-> FALSE, pos_idx |-> i - 1]
    ELSE LET fmu == units[i]
         IN  IF contains(fmu.range, start(new_mu)) \/ contains(fmu.range, end(new_mu))
             THEN [err |-> TRUE, pos_idx |-> i - 1]
             ELSE IF start(new_mu) < start(fmu)
             THEN [err |-> FALSE, pos_idx |-> i - 1]
             ELSE find_position(units, new_mu, i + 1)

\* add_range with the new unit put at the end of the list
add_range_append(units, addr_start, length) ==
    LET new_mu == FakeMemoryUnit(addr_start, length)
        p      == find_position(units, new_mu, 1)
    IN  IF p.err
        THEN [mu |-> units, ret |-> Raise("ValueError", "overlap")]
        ELSE [mu |-> Append(units, new_mu), ret |-> ReturnNone]

\* add_range with the new unit inserted before the overlap is looked for
add_range_insert_first(units, addr_start, length) ==
    LET new_mu == FakeMemoryUnit(addr_start, length)
        p      == find_position(units, new_mu, 1)
    IN  IF p.err \/ (/\ p.pos_idx + 2 <= Len(units)
                     /\ end(new_mu) >= start(units[p.pos_idx + 2]))
        THEN [mu |-> Insert(units, p.pos_idx, new_mu), ret |-> Raise("ValueError", "overlap")]
        ELSE [mu |-> Insert(units, p.pos_idx, new_mu), ret |-> ReturnNone]

\* add_range with the new unit put at the head of the list
add_range_front(units, addr_start, length) ==
    LET new_mu == FakeMemoryUnit(addr_start, length)
        p      == find_position(units, new_mu, 1)
    IN  IF p.err
        THEN [mu |-> units, ret |-> Raise("ValueError", "overlap")]
        ELSE IF /\ p.pos_idx + 2 <= Len(units)
                /\ end(new_mu) >= start(units[p.pos_idx + 2])
        THEN [mu |-> units, ret |-> Raise("ValueError", "overlap")]
        ELSE [mu |-> Insert(units, 0, new_mu), ret |-> ReturnNone]

\* units are numbered from 1 here, so self._mu[pos_idx+1] is units[pos_idx + 2]
add_range(units, addr_start, length) ==
    LET new_mu == FakeMemoryUnit(addr_start, length)
        p      == find_position(units, new_mu, 1)
    IN  IF p.err
        THEN [mu |-> units, ret |-> Raise("ValueError", "overlap")]
        ELSE IF /\ p.pos_idx + 2 <= Len(units)
                /\ end(new_mu) >= start(units[p.pos_idx + 2])
        THEN [mu |-> units, ret |-> Raise("ValueError", "overlap")]
        ELSE [mu |-> Insert(units, p.pos_idx, new_mu), ret |-> ReturnNone]

\* the index of the first unit that contains the address, 0 for the IOError
find_mu(units, address) ==
    IF \E i \in 1 .. Len(units) : contains(units[i].range, address)
    THEN CHOOSE i \in 1 .. Len(units) :
            /\ contains(units[i].range, address)
            /\ \A j \in 1 .. (i - 1) : ~contains(units[j].range, address)
    ELSE 0

\* read_write_method with each address of read32 served by the unit that
\* owns it
read_write_method_routed(units, method_name, address, val, no_error) ==
    LET i == find_mu(units, address)
    IN  IF i = 0
        THEN [mu |-> units,
              ret |-> IF no_error THEN ReturnNone ELSE Raise("IOError", address)]
        ELSE IF method_name = "read"
        THEN [mu |-> units, ret |-> FakeMemoryUnit_read(units[i], address, no_error)]
        ELSE IF method_name = "read32"
        THEN LET xs == [k \in 1 .. ReadBlockLen |-> address + k - 1]
                 rs == [k \in 1 .. ReadBlockLen |->
                          LET j == find_mu(units, xs[k])
                          IN  IF j = 0
                              THEN IF no_error THEN ReturnInt(0) ELSE Raise("IOError", xs[k])
                              ELSE FakeMemoryUnit_read(units[j], xs[k], no_error)]
             IN  [mu |-> units,
                  ret |-> IF \E k \in 1 .. ReadBlockLen : rs[k].kind = "raise"
                          THEN rs[CHOOSE k \in 1 .. ReadBlockLen :
                                     /\ rs[k].kind = "raise"
                                     /\ \A j \in 1 .. (k - 1) : rs[j].kind # "raise"]
                          ELSE ReturnList([k \in 1 .. ReadBlockLen |-> rs[k].val[1]])]
        ELSE LET r == FakeMemoryUnit_write(units[i], address, val, no_error)
             IN  [mu |-> [units EXCEPT ![i] = r.u], ret |-> r.ret]

\* an IOError, from _find_mu or from the unit, is raised again unless no_error,
\* and the method then falls off its end
read_write_method(units, method_name, address, val, no_error) ==
    LET i == find_mu(units, address)
    IN  IF i = 0
        THEN [mu |-> units,
              ret |-> IF no_error THEN ReturnNone ELSE Raise("IOError", address)]
        ELSE IF method_name = "read"
        THEN [mu |-> units, ret |-> FakeMemoryUnit_read(units[i], address, no_error)]
        ELSE IF method_name = "read32"
        THEN [mu |-> units, ret |-> FakeMemoryUnit_read32(units[i], address, no_error)]
        ELSE LET r == FakeMemoryUnit_write(units[i], address, val, no_error)
             IN  [mu |-> [units EXCEPT ![i] = r.u], ret |-> r.ret]

\* FakeMemory_clear that clears the first unit only
FakeMemory_clear_first(units) ==
    [i \in 1 .. Len(units) |->
        IF i = 1 THEN FakeMemoryUnit_clear(units[i]) ELSE units[i]]

FakeMemory_clear(units) == [i \in 1 .. Len(units) |-> FakeMemoryUnit_clear(units[i])]

NoValue == [is_list |-> FALSE, items |-> <<>>]

Init ==
    /\ mu = <<>>
    /\ call = Idle
    /\ ret = ReturnNone

\* add_range of one of the given ranges; the model holds at most cap units,
\* a rejected call is always possible
AddRangeOf(ranges, cap) ==
    /\ call = Idle
    /\ \E sl \in ranges :
        LET r == add_range(mu, sl[1], sl[2])
        IN  /\ Len(r.mu) <= cap
            /\ call' = [op |-> "add_range", addr_start |-> sl[1], length |-> sl[2]]
            /\ ret' = r.ret
            /\ mu' = r.mu

AddRange == AddRangeOf(Ranges, MaxUnits)

Read ==
    /\ call = Idle
    /\ \E address \in Addresses, no_error \in BOOLEAN :
        LET r == read_write_method(mu, "read", address, NoValue, no_error)
        IN  /\ call' = [op |-> "read", address |-> address, no_error |-> no_error]
            /\ ret' = r.ret
            /\ mu' = r.mu

Read32 ==
    /\ call = Idle
    /\ \E address \in Addresses, no_error \in BOOLEAN :
        LET r == read_write_method(mu, "read32", address, NoValue, no_error)
        IN  /\ call' = [op |-> "read32", address |-> address, no_error |-> no_error]
            /\ ret' = r.ret
            /\ mu' = r.mu

Write ==
    /\ call = Idle
    /\ \E address \in Addresses, value \in WriteArgs, no_error \in BOOLEAN :
        LET r == read_write_method(mu, "write", address, value, no_error)
        IN  /\ call' = [op |-> "write", address |-> address,
                        value |-> value, no_error |-> no_error]
            /\ ret' = r.ret
            /\ mu' = r.mu

Clear ==
    /\ call = Idle
    /\ call' = [op |-> "clear"]
    /\ ret' = ReturnNone
    /\ mu' = FakeMemory_clear(mu)

Next == AddRange \/ Read \/ Read32 \/ Write \/ Clear \/ Return

Spec == Init /\ [][Next]_vars

(* -------------- a FakeMemory that is only given ranges ---------------- *)
AddRangeOnly == AddRangeOf(RangesWithin(MaxRangeAddr), MaxRanges)

NextRanges == AddRangeOnly \/ Return

SpecRanges == Init /\ [][NextRanges]_vars

(* ---------------------------- FakeMemoryItf --------------------------- *)
\* A parsed SREC line, as SRec.parse_srec and SRec.validate_srec_checksum
\* hand it over: the type, the address and the data as hexadecimal text
\* (a sequence of characters), and whether the checksum validates.
HexChars == <<"0", "1", "2", "3", "4", "5", "6", "7",
              "8", "9", "A", "B", "C", "D", "E", "F">>

HexValue(c) == (CHOOSE i \in 1 .. 16 : HexChars[i] = c) - 1

\* int(text, 16)
RECURSIVE int16(_)
int16(text) ==
    IF Len(text) = 0 THEN 0
    ELSE int16(SubSeq(text, 1, Len(text) - 1)) * 16 + HexValue(text[Len(text)])

chunker(seq, size) ==
    [k \in 1 .. ((Len(seq) + size - 1) \div size) |->
        SubSeq(seq, (k - 1) * size + 1, Min(k * size, Len(seq)))]

RecordTypes == {"S0", "S1", "S3", "S7", "S9"}
AddrTexts == {<<"0", HexChars[a + 1]>> : a \in 0 .. (MaxAddr + 1)}
ByteTexts == {<<"0", "0">>, <<"A", "A">>}

RECURSIVE Flatten(_)
Flatten(ss) == IF Len(ss) = 0 THEN <<>> ELSE Head(ss) \o Flatten(Tail(ss))

DataTexts == {Flatten(bs) : bs \in SeqsUpTo(ByteTexts, MaxWriteLen)}

SRecords ==
    [rtype : RecordTypes, addr : AddrTexts, data : DataTexts, chk_ok : BOOLEAN]

cmd_erase_memory(units) == [mu |-> FakeMemory_clear(units), ret |-> ReturnBool(TRUE)]

\* the bytes of data written one at a time from address on, each where a
\* unit owns its address
RECURSIVE write_each_byte(_, _, _)
write_each_byte(units, address, data) ==
    IF Len(data) = 0 THEN units
    ELSE write_each_byte(
            read_write_method(units, "write", address,
                              [is_list |-> FALSE, items |-> <<Head(data)>>], TRUE).mu,
            address + 1, Tail(data))

\* the S3 branch writing byte after byte and failing afterwards when no unit
\* owns the address of the record
write_data_record_bytewise(units, srec) ==
    LET addr   == int16(srec.addr)
        chunks == chunker(srec.data, 2)
        data   == [k \in 1 .. Len(chunks) |-> int16(chunks[k])]
    IN  IF find_mu(units, addr) = 0
        THEN [mu |-> write_each_byte(units, addr, data), ret |-> Raise("IOError", addr)]
        ELSE [mu |-> write_each_byte(units, addr, data), ret |-> ReturnBool(TRUE)]

\* the S3 branch of cmd_write_srec; int(addr, 16) is computed for every
\* record in the code, and used by this branch only
write_data_record(units, srec) ==
    LET addr   == int16(srec.addr)
        chunks == chunker(srec.data, 2)
        data   == [k \in 1 .. Len(chunks) |-> int16(chunks[k])]
        r      == read_write_method(units, "write", addr,
                                    [is_list |-> TRUE, items |-> data], FALSE)
    IN  IF r.ret.kind = "raise" THEN r
        ELSE [mu |-> r.mu, ret |-> ReturnBool(TRUE)]

\* cmd_write_srec without the checksum test
cmd_write_srec_unchecked(units, srec) ==
    IF srec.rtype = "S0"
    THEN [mu |-> units, ret |-> ReturnBool(TRUE)]
    ELSE IF srec.rtype = "S3"
    THEN write_data_record(units, srec)
    ELSE IF srec.rtype = "S7"
    THEN [mu |-> units, ret |-> ReturnBool(TRUE)]
    ELSE [mu |-> units, ret |-> Raise("NotImplementedError", srec.rtype)]

\* cmd_write_srec with every type but S0 and S3 passed over like S7
cmd_write_srec_lenient(units, srec) ==
    IF ~srec.chk_ok
    THEN [mu |-> units, ret |-> ReturnBool(FALSE)]
    ELSE IF srec.rtype = "S0"
    THEN [mu |-> units, ret |-> ReturnBool(TRUE)]
    ELSE IF srec.rtype = "S3"
    THEN write_data_record(units, srec)
    ELSE [mu |-> units, ret |-> ReturnBool(TRUE)]

\* cmd_write_srec with S7 handled by the S3 branch
cmd_write_srec_s7_writes(units, srec) ==
    IF ~srec.chk_ok
    THEN [mu |-> units, ret |-> ReturnBool(FALSE)]
    ELSE IF srec.rtype = "S0"
    THEN [mu |-> units, ret |-> ReturnBool(TRUE)]
    ELSE IF srec.rtype \in {"S3", "S7"}
    THEN write_data_record(units, srec)
    ELSE [mu |-> units, ret |-> Raise("NotImplementedError", srec.rtype)]

cmd_write_srec(units, srec) ==
    IF ~srec.chk_ok
    THEN [mu |-> units, ret |-> ReturnBool(FALSE)]
    ELSE IF srec.rtype = "S0"
    THEN [mu |-> units, ret |-> ReturnBool(TRUE)]
    ELSE IF srec.rtype = "S3"
    THEN write_data_record(units, srec)
    ELSE IF srec.rtype = "S7"
    THEN [mu |-> units, ret |-> ReturnBool(TRUE)]
    ELSE [mu |-> units, ret |-> Raise("NotImplementedError", srec.rtype)]

\* FakeMemoryItf(): a FakeMemory with the Flash range
InitItf ==
    /\ mu = add_range(<<>>, FlashStart, FlashLength).mu
    /\ call = Idle
    /\ ret = ReturnNone

CmdEraseMemory ==
    /\ call = Idle
    /\ LET r == cmd_erase_memory(mu)
       IN  /\ call' = [op |-> "cmd_erase_memory"]
           /\ ret' = r.ret
           /\ mu' = r.mu

CmdWriteSrec ==
    /\ call = Idle
    /\ \E srec \in SRecords :
        LET r == cmd_write_srec(mu, srec)
        IN  /\ call' = [op |-> "cmd_write_srec", srec |-> srec]
            /\ ret' = r.ret
            /\ mu' = r.mu

NextItf == CmdEraseMemory \/ CmdWriteSrec \/ Return

SpecItf == InitItf /\ [][NextItf]_vars

(* ============================ properties ============================== *)
\* the inclusive interval of unit u shares an address with [s, s + l - 1]
Intersects(u, s, l) == start(u) <= s + l - 1 /\ s <= end(u)

NoOverlap(units) ==
    \A i, j \in 1 .. Len(units) :
        i < j => ~Intersects(units[i], start(units[j]), units[j].length)

SortedByStart(units) ==
    \A i \in 1 .. (Len(units) - 1) : start(units[i]) < start(units[i + 1])

RangeSet(units) == {<<start(units[i]), units[i].length>> : i \in 1 .. Len(units)}

\* the addresses a write of value at address covers
Covered(address, value) == {address + k : k \in 0 .. (Len(value.items) - 1)}

\* C1: an add_range whose candidate interval shares an address with an
\* existing unit fails with the overlap ValueError and leaves the number of
\* units unchanged; so in every state units[i].end < units[i+1].start.
C1_OverlapIsRejected ==
    /\ [][(/\ call'.op = "add_range"
           /\ \E i \in 1 .. Len(mu) :
                 Intersects(mu[i], call'.addr_start, call'.length))
          => (ret'.exc = "ValueError" /\ Len(mu') = Len(mu))]_vars
    /\ [](\A i \in 1 .. (Len(mu) - 1) : end(mu[i]) < start(mu[i + 1]))

\* C2: as long as the ranges handed to add_range are pairwise disjoint
\* (adjacent ones included), whatever their order, no call is rejected and
\* the unit list holds every range, sorted by start, no two intersecting.
C2_DisjointRangesAccepted ==
    [][(/\ call'.op = "add_range"
        /\ NoOverlap(mu)
        /\ \A i \in 1 .. Len(mu) :
              ~Intersects(mu[i], call'.addr_start, call'.length))
       => (/\ ret'.kind = "None"
           /\ Len(mu') = Len(mu) + 1
           /\ RangeSet(mu') = RangeSet(mu) \cup {<<call'.addr_start, call'.length>>}
           /\ SortedByStart(mu')
           /\ NoOverlap(mu'))]_vars

\* a range was accepted between two units it is adjacent to on both sides
C2_Witness ==
    /\ call.op = "add_range"
    /\ ret.kind = "None"
    /\ Len(mu) = 3
    /\ call.addr_start = start(mu[2])
    /\ end(mu[1]) + 1 = start(mu[2])
    /\ end(mu[2]) + 1 = start(mu[3])

\* C3: a non-tolerant FakeMemoryUnit.write covering an address outside
\* [start, end] fails with IOError, also when the first address is inside.
C3_WriteOutOfRangeFails ==
    (/\ call.op = "fmu.write"
     /\ ~call.no_error
     /\ \E x \in Covered(call.address, call.value) : ~contains(mu[1].range, x))
    => ret.exc = "IOError"

\* C4: each unit's buffer always holds exactly length bytes.
C4_BufferKeepsLength ==
    \A i \in 1 .. Len(mu) : Len(mu[i].data) = mu[i].length

\* C5: with no_error set and the address in no unit, FakeMemory.read returns
\* 0, read32 returns a list of zero bytes and write returns without failing
\* and changes no buffer.
C5_TolerantMiss ==
    [][(/\ call'.op \in {"read", "read32", "write"}
        /\ call'.no_error
        /\ find_mu(mu, call'.address) = 0)
       => (/\ call'.op = "read" => ret' = ReturnInt(0)
           /\ call'.op = "read32" => ret' = ReturnList([i \in 1 .. ReadBlockLen |-> 0])
           /\ call'.op = "write" => (ret'.kind # "raise" /\ mu' = mu))]_vars

\* C6: cmd_write_srec of a line whose checksum does not validate returns
\* False, whatever the record type, and leaves the unit list and every
\* buffer as they were.
C6_BadChecksumRefused ==
    [][(call'.op = "cmd_write_srec" /\ ~call'.srec.chk_ok)
       => (ret' = ReturnBool(FALSE) /\ mu' = mu)]_vars

\* a data record for an address of the Flash range was refused for its
\* checksum and the byte there still reads 0
C6_Witness ==
    /\ call.op = "cmd_write_srec"
    /\ ~call.srec.chk_ok
    /\ call.srec.rtype = "S3"
    /\ call.srec.data = <<"A", "A">>
    /\ find_mu(mu, int16(call.srec.addr)) # 0
    /\ FakeMemoryUnit_read(mu[1], int16(call.srec.addr), FALSE) = ReturnInt(0)
    /\ ret = ReturnBool(FALSE)

UnknownType(rtype) == rtype \notin {"S0", "S3", "S7"}

\* C7 as stated: a record of a type other than S0, S3, S7 makes
\* cmd_write_srec raise NotImplementedError naming the type, whatever its
\* checksum, and changes no buffer.
C7_UnknownTypeAlwaysRaises ==
    [][(call'.op = "cmd_write_srec" /\ UnknownType(call'.srec.rtype))
       => (/\ ret'.exc = "NotImplementedError"
           /\ ret'.arg = <<call'.srec.rtype>>
           /\ mu' = mu)]_vars

\* C7 amended: a record of a type other than S0, S3, S7 never changes a
\* buffer; with a valid checksum it makes cmd_write_srec raise
\* NotImplementedError naming the type, with an invalid one it returns False.
C7_UnknownTypeRaisesIfChecksumValid ==
    [][(call'.op = "cmd_write_srec" /\ UnknownType(call'.srec.rtype))
       => (/\ mu' = mu
           /\ call'.srec.chk_ok =>
                (ret'.exc = "NotImplementedError" /\ ret'.arg = <<call'.srec.rtype>>)
           /\ ~call'.srec.chk_ok => ret' = ReturnBool(FALSE))]_vars

\* an S1 record with a valid checksum and a payload was refused over a
\* buffer that holds a written byte
C7_Witness ==
    /\ call.op = "cmd_write_srec"
    /\ call.srec.rtype = "S1"
    /\ call.srec.chk_ok
    /\ call.srec.data # <<>>
    /\ ret.exc = "NotImplementedError"
    /\ \E k \in 1 .. Len(mu[1].data) : mu[1].data[k] # 0

\* C8: a data record with a valid checksum whose payload covers an address
\* outside the unit that owns its address (or whose address no unit owns)
\* makes cmd_write_srec fail instead of returning True.
C8_OutOfRangePayloadFails ==
    (/\ call.op = "cmd_write_srec"
     /\ call.srec.chk_ok
     /\ call.srec.rtype = "S3"
     /\ Len(call.srec.data) >= 2
     /\ LET a == int16(call.srec.addr)
            n == Len(call.srec.data) \div 2
            k == find_mu(mu, a)
        IN  k = 0 \/ a + n - 1 > end(mu[k]))
    => ret.kind = "raise"

\* C9: after a list of bytes was written at an address A such that
\* A .. A+N-1 lie inside the unit that owns A, reading A .. A+N-1 gives back
\* the list, through FakeMemory and through the unit itself.
C9_RoundTrip ==
    (/\ call.op = "write"
     /\ call.value.is_list
     /\ \A k \in 1 .. Len(call.value.items) : IsByte(call.value.items[k])
     /\ LET i == find_mu(mu, call.address)
        IN  i # 0 /\ \A x \in Covered(call.address, call.value) : contains(mu[i].range, x))
    => (/\ ret.kind = "None"
        /\ \A k \in 1 .. Len(call.value.items) :
            LET x == call.address + k - 1
            IN  /\ read_write_method(mu, "read", x, NoValue, FALSE).ret
                     = ReturnInt(call.value.items[k])
                /\ FakeMemoryUnit_read(mu[find_mu(mu, call.address)], x, FALSE)
                     = ReturnInt(call.value.items[k]))

\* two bytes were written to the second of two units, which holds them; the
\* first unit keeps the byte written to it before
C9_Witness ==
    /\ call.op = "write"
    /\ call.value.is_list
    /\ call.value.items = <<170, 170>>
    /\ ret.kind = "None"
    /\ Len(mu) = 2
    /\ NoOverlap(mu)
    /\ find_mu(mu, call.address) = 2
    /\ call.address + 1 <= end(mu[2])
    /\ SubSeq(mu[2].data, call.address - start(mu[2]) + 1, call.address - start(mu[2]) + 2)
          = <<170, 170>>
    /\ mu[1].data = <<170>>

\* C10: for a unit spanning [S, S+L-1], a read of S-1 or of S+L raises
\* IOError, or returns 0 when no_error is set; reads of S and S+L-1 return
\* the bytes at offsets 0 and L-1; _get_address(a) is a - S exactly when
\* S <= a <= S+L-1.
C10_ReadAtBounds ==
    LET u == mu[1]
        S == u.addr_start
        L == u.length
    IN  /\ \A a \in Addresses :
            /\ get_address(u, a).ok <=> (S <= a /\ a <= S + L - 1)
            /\ get_address(u, a).ok => get_address(u, a).off = a - S
        /\ call.op = "fmu.read" =>
            /\ call.address \in {S - 1, S + L} =>
                 IF call.no_error THEN ret = ReturnInt(0)
                 ELSE ret.exc = "IOError" /\ ret.arg = <<call.address>>
            /\ call.address = S => ret = ReturnInt(u.data[1])
            /\ call.address = S + L - 1 => ret = ReturnInt(u.data[L])

\* the last byte of a unit longer than one byte was written and then read
C10_Witness ==
    /\ call.op = "fmu.read"
    /\ mu[1].length >= 2
    /\ call.address = end(mu[1])
    /\ ~call.no_error
    /\ ret = ReturnInt(170)

\* the start and the length of every unit, in the order of the list
Layout(units) == [i \in 1 .. Len(units) |-> <<start(units[i]), units[i].length>>]

\* the addresses of unit u
AddressesOf(u) == start(u) .. end(u)

\* C11: after FakeMemory.clear, and after cmd_erase_memory, which returns
\* True, a read of every address of every unit returns 0 and the unit list
\* has the units it had, in the same order, with the same start and length.
C11_ClearZeroesAll ==
    [][call'.op = "clear"
       => (/\ Layout(mu') = Layout(mu)
           /\ \A i \in 1 .. Len(mu') : \A x \in AddressesOf(mu'[i]) :
                /\ FakeMemoryUnit_read(mu'[i], x, FALSE) = ReturnInt(0)
                /\ read_write_method(mu', "read", x, NoValue, FALSE).ret = ReturnInt(0)
           /\ cmd_erase_memory(mu).mu = mu'
           /\ cmd_erase_memory(mu).ret = ReturnBool(TRUE))]_vars

\* two units, the second longer than one byte, were cleared
C11_Witness ==
    /\ call.op = "clear"
    /\ Len(mu) = 2
    /\ mu[2].length >= 2
    /\ \A i \in 1 .. 2 : mu[i].data = Zeroes(mu[i].length)

\* C12: an add_range that fails with the overlap ValueError leaves the unit
\* list as it was: the same units in the same order, each with the same
\* start, length and buffer.
C12_RejectedAddRangeChangesNothing ==
    [][(call'.op = "add_range" /\ ret'.kind = "raise")
       => (ret'.exc = "ValueError" /\ mu' = mu)]_vars

\* a range was rejected by a list of two units that hold written bytes
C12_Witness ==
    /\ call.op = "add_range"
    /\ ret.exc = "ValueError"
    /\ Len(mu) = 2
    /\ \A i \in 1 .. 2 : \E k \in 1 .. Len(mu[i].data) : mu[i].data[k] = 170

\* C13: a data record with a valid checksum whose address no unit owns makes
\* cmd_write_srec fail with the IOError and leaves every buffer as it was:
\* no byte of the payload is written.
C13_RejectedRecordWritesNothing ==
    [][(/\ call'.op = "cmd_write_srec"
        /\ call'.srec.chk_ok
        /\ call'.srec.rtype = "S3")
       => (/\ find_mu(mu, int16(call'.srec.addr)) = 0
                => (ret' = Raise("IOError", int16(call'.srec.addr)) /\ mu' = mu)
           /\ ret'.kind = "raise" => mu' = mu)]_vars

\* a two-byte record was rejected for its address, the byte after which
\* belongs to the Flash range and still reads 0
C13_Witness ==
    /\ call.op = "cmd_write_srec"
    /\ call.srec.chk_ok
    /\ call.srec.rtype = "S3"
    /\ call.srec.data = <<"A", "A", "A", "A">>
    /\ ret.exc = "IOError"
    /\ find_mu(mu, int16(call.srec.addr)) = 0
    /\ find_mu(mu, int16(call.srec.addr) + 1) = 1
    /\ FakeMemoryUnit_read(mu[1], int16(call.srec.addr) + 1, FALSE) = ReturnInt(0)

\* C14: an S0 or an S7 record with a valid checksum makes cmd_write_srec
\* return True and leaves the unit list and every buffer as they were,
\* whatever its address and data.
C14_FramingRecordsChangeNothing ==
    [][(/\ call'.op = "cmd_write_srec"
        /\ call'.srec.chk_ok
        /\ call'.srec.rtype \in {"S0", "S7"})
       => (ret' = ReturnBool(TRUE) /\ mu' = mu)]_vars

\* an S7 record carrying a byte for an address of the Flash range was
\* accepted and the byte there still reads 0
C14_Witness ==
    /\ call.op = "cmd_write_srec"
    /\ call.srec.chk_ok
    /\ call.srec.rtype = "S7"
    /\ call.srec.data = <<"A", "A">>
    /\ ret = ReturnBool(TRUE)
    /\ find_mu(mu, int16(call.srec.addr)) = 1
    /\ FakeMemoryUnit_read(mu[1], int16(call.srec.addr), FALSE) = ReturnInt(0)

\* the first index whose unit starts above s, one past the list if none does
FirstGreater(units, s) ==
    IF \E i \in 1 .. Len(units) : start(units[i]) > s
    THEN CHOOSE i \in 1 .. Len(units) :
            /\ start(units[i]) > s
            /\ \A j \in 1 .. (i - 1) : start(units[j]) <= s
    ELSE Len(units) + 1

\* C15: whatever add_range calls, writes and clears were made, the unit list
\* is strictly ascending by start, and an accepted add_range inserts the new
\* unit at the first index whose unit has a greater start.
C15_StrictlyAscending ==
    /\ [](SortedByStart(mu))
    /\ [][(call'.op = "add_range" /\ ret'.kind = "None")
          => mu' = Insert(mu, FirstGreater(mu, call'.addr_start) - 1,
                          FakeMemoryUnit(call'.addr_start, call'.length))]_vars

\* a range was accepted in front of a unit that holds a written byte
C15_Witness ==
    /\ call.op = "add_range"
    /\ ret.kind = "None"
    /\ Len(mu) = 2
    /\ call.addr_start = start(mu[1])
    /\ \E k \in 1 .. Len(mu[2].data) : mu[2].data[k] = 170

\* C16: a FakeMemoryUnit.write whose address is outside the unit, or whose
\* value or one of whose list items is not a byte, leaves the buffer as it
\* was; it raises IOError or ValueError, or returns None when no_error is set.
C16_FailedWriteChangesNothing ==
    [][(/\ call'.op = "fmu.write"
        /\ \/ ~contains(mu[1].range, call'.address)
           \/ \E k \in 1 .. Len(call'.value.items) : ~IsByte(call'.value.items[k]))
       => (/\ mu' = mu
           /\ call'.no_error => ret' = ReturnNone
           /\ ~call'.no_error =>
                ret'.exc = IF contains(mu[1].range, call'.address)
                           THEN "ValueError" ELSE "IOError")]_vars

\* a list of a byte and a value that is not one was handed to a tolerant
\* write at an address of the unit, and the byte there still reads 0
C16_Witness ==
    /\ call.op = "fmu.write"
    /\ call.no_error
    /\ call.value.is_list
    /\ call.value.items = <<170, 256>>
    /\ contains(mu[1].range, call.address)
    /\ contains(mu[1].range, call.address + 1)
    /\ ret = ReturnNone
    /\ FakeMemoryUnit_read(mu[1], call.address, FALSE) = ReturnInt(0)

\* what FakeMemory.read gives at address x, errors included
ReadBack(units, x) == read_write_method(units, "read", x, NoValue, FALSE).ret

\* C17: a FakeMemory.write that returns changes only what is read at the
\* addresses it covers in the unit that owns its address: every other
\* address of that unit reads as before, every other unit and the layout of
\* the list are as before, also when the list runs past the end of the unit.
C17_WriteFrame ==
    [][(call'.op = "write" /\ ret'.kind = "None")
       => LET i == find_mu(mu, call'.address)
              covered == Covered(call'.address, call'.value)
          IN  /\ Layout(mu') = Layout(mu)
              /\ \A j \in 1 .. Len(mu) : mu'[j].range = mu[j].range
              /\ \A j \in 1 .. Len(mu) : j # i => mu'[j] = mu[j]
              /\ i # 0 =>
                    \A x \in AddressesOf(mu[i]) \ covered :
                        FakeMemoryUnit_read(mu'[i], x, FALSE)
                            = FakeMemoryUnit_read(mu[i], x, FALSE)
              /\ \A x \in Addresses :
                    (i = 0 \/ x \notin covered \/ x > end(mu[i]))
                        => ReadBack(mu', x) = ReadBack(mu, x)]_vars

\* two bytes were written at the last address of the first unit, the second
\* of them for the first address of the second unit, which still holds 0
\* there, next to a byte of the first unit written before
C17_Witness ==
    /\ call.op = "write"
    /\ call.value.is_list
    /\ call.value.items = <<170, 170>>
    /\ ret.kind = "None"
    /\ Len(mu) = 2
    /\ find_mu(mu, call.address) = 1
    /\ call.address = end(mu[1])
    /\ start(mu[2]) = call.address + 1
    /\ mu[2].data[1] = 0
    /\ mu[1].length = 2
    /\ mu[1].data[1] = 0
    /\ mu[1].data[2] = 170

\* what read32 at address gives for its k-th address when unit u alone
\* serves it with no_error set
ServedBy(u, address, k) ==
    LET x == address + k - 1
    IN  IF x <= end(u) THEN u.data[x - start(u) + 1] ELSE 0

\* C18: a FakeMemory.read32 at an address owned by unit U is served by U
\* alone: with no_error set it gives U's bytes, and 0 for every address
\* past U's end, also where another unit owns that address; without it the
\* call raises the IOError of the first address past U's end.
C18_Read32ServedByOwner ==
    (call.op = "read32" /\ find_mu(mu, call.address) # 0)
    => LET u == mu[find_mu(mu, call.address)]
           block == [k \in 1 .. ReadBlockLen |-> ServedBy(u, call.address, k)]
       IN  /\ \A k \in 1 .. ReadBlockLen :
                LET x == call.address + k - 1
                IN  FakeMemoryUnit_read(u, x, call.no_error) =
                        IF x <= end(u) THEN ReturnInt(u.data[x - start(u) + 1])
                        ELSE IF call.no_error THEN ReturnInt(0)
                        ELSE Raise("IOError", x)
           /\ ret = IF call.no_error \/ call.address + ReadBlockLen - 1 <= end(u)
                    THEN ReturnList(block)
                    ELSE Raise("IOError", end(u) + 1)

\* a tolerant read32 at the first unit, which holds a written byte, gave 0
\* for the address of a byte written to the adjacent second unit
C18_Witness ==
    /\ call.op = "read32"
    /\ call.no_error
    /\ Len(mu) = 2
    /\ find_mu(mu, call.address) = 1
    /\ call.address = start(mu[1])
    /\ start(mu[2]) = end(mu[1]) + 1
    /\ mu[1].data[1] = 170
    /\ mu[2].data[1] = 170
    /\ ret.kind = "list"
    /\ ret.val[1] = 170
    /\ ret.val[mu[1].length + 1] = 0

====
